---- MODULE Spec2Model ----
(***************************************************************************)
(* Lead-intake backend (src/main.py): POST /api/leads persists a lead and  *)
(* then attempts an email and a WhatsApp notification to the owner.        *)
(*                                                                         *)
(* Strings are sequences of tokens (single characters, or fixed labels of  *)
(* the notification text); Python's None is the one-token sequence None.   *)
(***************************************************************************)
EXTENDS Naturals, Sequences, FiniteSets, TLC

\* ---------------------------------------------------------------- bounds
\* Number of submissions to POST /api/leads (they may interleave).
NumReqs == 2
\* OWNER_WHATSAPP_TO ranges over the concatenations of at most MaxParts parts.
MaxParts == 3

Reqs == 1..NumReqs

\* ------------------------------------------------------- Python primitives
None == <<"None">>

\* Truthiness of an Optional[str]: None and "" are falsy.
Truthy(v) == v # None /\ v # <<>>

\* Python's `a or b`.
Or(a, b) == IF Truthy(a) THEN a ELSE b

\* os.getenv(name) is env[name]; os.getenv(name, default):
getenv(e, name, default) == IF e[name] = None THEN default ELSE e[name]

\* str.startswith
startswith(s, p) == Len(s) >= Len(p) /\ SubSeq(s, 1, Len(p)) = p

\* str.replace for a one-token pattern
replace(s, old, new) == [i \in DOMAIN s |-> IF s[i] = old THEN new ELSE s[i]]

\* ------------------------------------------------------- program literals
DefaultOwnerEmail == <<"krishpersonal6@gmail.com">>
DefaultOwnerWa == <<"+", "9", "1", "7", "6", "6", "8", "2", "2", "2", "0", "2", "1">>
WaPrefix == <<"w", "h", "a", "t", "s", "a", "p", "p", ":">>
Subject == <<"New IronPulse Lead">>

\* ------------------------------------------------------------ environment
\* A credential is unset, set to the empty string, or set to a value.
CredValues == {None, <<>>, <<"k">>}

PhoneParts == {WaPrefix, <<"w">>, <<"+", "1">>}

RECURSIVE Concats(_)
Concats(k) ==
  IF k = 0 THEN {<<>>}
  ELSE LET prev == Concats(k - 1) IN prev \cup {p \o q : p \in prev, q \in PhoneParts}

PhoneValues == {None} \cup Concats(MaxParts)

\* Every environment of the bounded value sets.
AllEnvs ==
  {[OWNER_EMAIL |-> oe, OWNER_WHATSAPP_TO |-> ow, SENDGRID_API_KEY |-> ak,
    SENDGRID_FROM_EMAIL |-> fe, TWILIO_ACCOUNT_SID |-> sid, TWILIO_AUTH_TOKEN |-> tok,
    TWILIO_WHATSAPP_FROM |-> wf] :
     oe \in {None, <<"o@x">>}, ow \in PhoneValues, ak \in CredValues,
     fe \in {None, <<"f@x">>}, sid \in CredValues, tok \in CredValues,
     wf \in {None, <<>>, WaPrefix \o <<"+", "1", "4">>}}

\* The environments of the interleaved specification: each channel either fully
\* configured or not configured, the owner contacts left to their defaults.
SmallEnvs ==
  {e \in AllEnvs :
     /\ e.OWNER_EMAIL = None /\ e.SENDGRID_FROM_EMAIL = None /\ e.OWNER_WHATSAPP_TO = None
     /\ e.SENDGRID_API_KEY # <<>>
     /\ e.TWILIO_ACCOUNT_SID = <<"k">> /\ e.TWILIO_AUTH_TOKEN = <<"k">>
     /\ e.TWILIO_WHATSAPP_FROM # <<>>}

\* ------------------------------------------------------------------ senders
\* What the provider library does when a configured sender reaches it.
ProviderOutcomes == {"import_fails", "raises", "accepts"}

owner_contacts(e) ==
  <<getenv(e, "OWNER_EMAIL", DefaultOwnerEmail), getenv(e, "OWNER_WHATSAPP_TO", DefaultOwnerWa)>>

\* The result of a sender call: its return value, whether an exception left it,
\* and the calls it made to the provider's send, each with what the provider did.
SenderResult(ret, raised, dispatched) ==
  [ret |-> ret, raised |-> raised, dispatched |-> dispatched]

ProviderCall(msg, result) == [msg |-> msg, result |-> result]

\* Mutant: the provider call outside any try, so that its exception leaves the sender.
send_email_no_catch(e, subject, body, o) ==
  LET message == [from_email |-> Or(e["SENDGRID_FROM_EMAIL"], Or(e["OWNER_EMAIL"], DefaultOwnerEmail)),
                  to_emails |-> owner_contacts(e)[1], subject |-> subject,
                  html_content |-> replace(body, "\n", "<br>")]
  IN IF ~Truthy(e["SENDGRID_API_KEY"]) THEN SenderResult(FALSE, FALSE, <<>>)
     ELSE IF o = "import_fails" THEN SenderResult(FALSE, TRUE, <<>>)
     ELSE IF o = "raises" THEN SenderResult(FALSE, TRUE, <<ProviderCall(message, "raised")>>)
     ELSE SenderResult(TRUE, FALSE, <<ProviderCall(message, "accepted")>>)

\* Mutant: the except clause returns True ("True on attempt").
send_email_true_on_attempt(e, subject, body, o) ==
  LET message == [from_email |-> Or(e["SENDGRID_FROM_EMAIL"], Or(e["OWNER_EMAIL"], DefaultOwnerEmail)),
                  to_emails |-> owner_contacts(e)[1], subject |-> subject,
                  html_content |-> replace(body, "\n", "<br>")]
  IN IF ~Truthy(e["SENDGRID_API_KEY"]) THEN SenderResult(FALSE, FALSE, <<>>)
     ELSE IF o = "import_fails" THEN SenderResult(TRUE, FALSE, <<>>)
     ELSE IF o = "raises" THEN SenderResult(TRUE, FALSE, <<ProviderCall(message, "raised")>>)
     ELSE SenderResult(TRUE, FALSE, <<ProviderCall(message, "accepted")>>)

send_email_via_sendgrid(e, subject, body, o) ==
  LET api_key == e["SENDGRID_API_KEY"]
      from_email == Or(e["SENDGRID_FROM_EMAIL"], Or(e["OWNER_EMAIL"], DefaultOwnerEmail))
      to_email == owner_contacts(e)[1]
      message == [from_email |-> from_email, to_emails |-> to_email, subject |-> subject,
                  html_content |-> replace(body, "\n", "<br>")]
  IN IF ~Truthy(api_key) THEN SenderResult(FALSE, FALSE, <<>>)
     ELSE IF o = "import_fails" THEN SenderResult(FALSE, FALSE, <<>>)
     ELSE IF o = "raises" THEN SenderResult(FALSE, FALSE, <<ProviderCall(message, "raised")>>)
     ELSE SenderResult(TRUE, FALSE, <<ProviderCall(message, "accepted")>>)

\* Mutant: the prefix is prepended whatever the phone starts with.
to_whatsapp_always(to_phone) == WaPrefix \o to_phone

\* to_whatsapp = f"whatsapp:{to_phone}" if not to_phone.startswith("whatsapp:") else to_phone
to_whatsapp(to_phone) ==
  IF ~startswith(to_phone, WaPrefix) THEN WaPrefix \o to_phone ELSE to_phone

\* Mutant: the provider call outside any try, so that its exception leaves the sender.
send_whatsapp_no_catch(e, message, o) ==
  LET sent == [from_ |-> e["TWILIO_WHATSAPP_FROM"], to |-> to_whatsapp(owner_contacts(e)[2]),
               body |-> message]
  IN IF ~(Truthy(e["TWILIO_ACCOUNT_SID"]) /\ Truthy(e["TWILIO_AUTH_TOKEN"])
          /\ Truthy(e["TWILIO_WHATSAPP_FROM"]))
     THEN SenderResult(FALSE, FALSE, <<>>)
     ELSE IF o = "import_fails" THEN SenderResult(FALSE, TRUE, <<>>)
     ELSE IF o = "raises" THEN SenderResult(FALSE, TRUE, <<ProviderCall(sent, "raised")>>)
     ELSE SenderResult(TRUE, FALSE, <<ProviderCall(sent, "accepted")>>)

\* Mutant: the configuration test forgets TWILIO_WHATSAPP_FROM.
send_whatsapp_no_from_check(e, message, o) ==
  LET sent == [from_ |-> e["TWILIO_WHATSAPP_FROM"], to |-> to_whatsapp(owner_contacts(e)[2]),
               body |-> message]
  IN IF ~(Truthy(e["TWILIO_ACCOUNT_SID"]) /\ Truthy(e["TWILIO_AUTH_TOKEN"]))
     THEN SenderResult(FALSE, FALSE, <<>>)
     ELSE IF o = "import_fails" THEN SenderResult(FALSE, FALSE, <<>>)
     ELSE IF o = "raises" THEN SenderResult(FALSE, FALSE, <<ProviderCall(sent, "raised")>>)
     ELSE SenderResult(TRUE, FALSE, <<ProviderCall(sent, "accepted")>>)

send_whatsapp_via_twilio(e, message, o) ==
  LET account_sid == e["TWILIO_ACCOUNT_SID"]
      auth_token == e["TWILIO_AUTH_TOKEN"]
      from_whatsapp == e["TWILIO_WHATSAPP_FROM"]
      to_phone == owner_contacts(e)[2]
      sent == [from_ |-> from_whatsapp, to |-> to_whatsapp(to_phone), body |-> message]
  IN IF ~(Truthy(account_sid) /\ Truthy(auth_token) /\ Truthy(from_whatsapp))
     THEN SenderResult(FALSE, FALSE, <<>>)
     ELSE IF o = "import_fails" THEN SenderResult(FALSE, FALSE, <<>>)
     ELSE IF o = "raises" THEN SenderResult(FALSE, FALSE, <<ProviderCall(sent, "raised")>>)
     ELSE SenderResult(TRUE, FALSE, <<ProviderCall(sent, "accepted")>>)

\* ------------------------------------------------------------ lead payloads
\* A JSON payload: a missing (or null) field is None.
Payload(name, phone, email, selected_plan, message, source) ==
  [name |-> name, phone |-> phone, email |-> email, selected_plan |-> selected_plan,
   message |-> message, source |-> source]

Payloads ==
  { Payload(<<"A">>, <<"+", "1">>, None, None, None, None),
    Payload(<<"B">>, <<"+", "2">>, <<"b", "@", "x">>, <<"gold">>, <<"h", "\n", "i">>, <<"ad">>),
    Payload(None, <<"+", "1">>, None, None, None, None),
    Payload(<<"A">>, None, None, None, None, None),
    Payload(<<"A">>, <<"+", "1">>, <<"not-an-email">>, None, None, None) }

\* EmailStr: one "@" with a non-empty local part and a non-empty domain.
IsEmail(s) ==
  /\ Cardinality({i \in DOMAIN s : s[i] = "@"}) = 1
  /\ s[1] # "@" /\ s[Len(s)] # "@"

\* The Lead schema: name and phone required, email optional but well-formed.
LeadValid(p) ==
  /\ p.name # None
  /\ p.phone # None
  /\ (p.email = None \/ IsEmail(p.email))

\* The Lead the handler receives: the payload with the schema's default source.
ParseLead(p) == [p EXCEPT !.source = IF p.source = None THEN <<"web">> ELSE p.source]

\* ------------------------------------------------------------ the document store
\* str(id) of the n-th created document.
IdStr(n) == <<"id", ToString(n)>>

\* Descriptions of the failures create_document can raise.
StoreErrors == {<<"db", "down">>, <<"timeout">>}

\* ------------------------------------------------------------------- state
VARIABLES
  env,            \* the process environment (os.environ), fixed while the server runs
  store,          \* the "lead" collection: a set of [id, doc]
  nextId,         \* the store's id generator
  pc,             \* per request: where its handling stands
  payload,        \* per request: the JSON body received
  lead,           \* per request: the validated Lead handed to create_lead
  lead_id,        \* per request: create_lead's local lead_id
  email_sent,     \* per request: create_lead's local email_sent (read once assigned)
  wa_sent,        \* per request: create_lead's local wa_sent (read once assigned)
  response,       \* per request: the HTTP response
  created,        \* per request: the ids of the documents its create_document calls stored
  createError,    \* per request: the description of the failure create_document raised
  trace,          \* per request: the states it has passed through, in order
  senderCalls,    \* per request: the sender invocations, in order, with their arguments
  providerCalls   \* per request: the messages handed to the providers' send calls

vars == <<env, store, nextId, pc, payload, lead, lead_id, email_sent, wa_sent, response,
          created, createError, trace, senderCalls, providerCalls>>

\* ------------------------------------------------------------ the handler
\* The notification text create_lead composes.
text(l, id) ==
  <<"New gym lead", "\n">>
  \o <<"Name: ">> \o l.name \o <<"\n">>
  \o <<"Phone: ">> \o l.phone \o <<"\n">>
  \o <<"Email: ">> \o Or(l.email, <<"-">>) \o <<"\n">>
  \o <<"Plan: ">> \o Or(l.selected_plan, <<"-">>) \o <<"\n">>
  \o <<"Message: ">> \o Or(l.message, <<"-">>) \o <<"\n">>
  \o <<"Source: ">> \o Or(l.source, <<"web">>) \o <<"\n">>
  \o <<"Lead ID: ">> \o id

\* Mutant: the response carries a fixed id instead of the one the store returned.
SuccessResponse_fixed_id(id, es, ws) ==
  [status |-> 200,
   body |-> [ok |-> TRUE, id |-> <<"id", "1">>, email_sent |-> es, whatsapp_sent |-> ws]]

\* The success payload create_lead returns.
SuccessResponse(id, es, ws) ==
  [status |-> 200, body |-> [ok |-> TRUE, id |-> id, email_sent |-> es, whatsapp_sent |-> ws]]

\* Mutant: the error response hides the failure's description.
ErrorResponse_fixed(e) == [status |-> 500, detail |-> <<"Internal Server Error">>]

\* raise HTTPException(status_code=500, detail=str(e))
ErrorResponse(e) == [status |-> 500, detail |-> e]

\* No response has been sent yet.
NoResponse == [status |-> 0]

\* The framework's answer to a payload that is no Lead.
ValidationResponse == [status |-> 422]

\* The description of an exception a sender lets through.
SenderError == <<"sender", "raised">>

Step(r, to) ==
  /\ pc' = [pc EXCEPT ![r] = to]
  /\ trace' = [trace EXCEPT ![r] = Append(@, to)]

\* A client posts a payload to /api/leads.
Submit(r) ==
  /\ pc[r] = "Idle"
  /\ \E p \in Payloads : payload' = [payload EXCEPT ![r] = p]
  /\ Step(r, "Received")
  /\ UNCHANGED <<env, store, nextId, lead, lead_id, email_sent, wa_sent, response,
                 created, createError, senderCalls, providerCalls>>

\* Mutant: the handler takes the raw body, with no schema in front of it.
ValidateLead_unchecked(r) ==
  /\ pc[r] = "Received"
  /\ lead' = [lead EXCEPT ![r] = ParseLead(payload[r])]
  /\ Step(r, "Validated")
  /\ UNCHANGED <<env, store, nextId, payload, lead_id, email_sent, wa_sent, response,
                 created, createError, senderCalls, providerCalls>>

\* The framework binds the body to `lead: Lead`: create_lead runs only on a valid Lead.
ValidateLead(r) ==
  /\ pc[r] = "Received"
  /\ \/ /\ LeadValid(payload[r])
        /\ lead' = [lead EXCEPT ![r] = ParseLead(payload[r])]
        /\ Step(r, "Validated")
        /\ UNCHANGED response
     \/ /\ ~LeadValid(payload[r])
        /\ response' = [response EXCEPT ![r] = ValidationResponse]
        /\ Step(r, "Rejected")
        /\ UNCHANGED lead
  /\ UNCHANGED <<env, store, nextId, payload, lead_id, email_sent, wa_sent,
                 created, createError, senderCalls, providerCalls>>

\* create_document stores the lead under a fresh id and returns str(id).
StoreInsert(r) ==
  /\ store' = store \cup {[id |-> IdStr(nextId), doc |-> lead[r]]}
  /\ nextId' = nextId + 1
  /\ created' = [created EXCEPT ![r] = Append(@, IdStr(nextId))]

\* lead_id = create_document("lead", lead), inside create_lead's try.
CreateDocument(r) ==
  /\ pc[r] = "Validated"
  /\ \/ /\ StoreInsert(r)
        /\ lead_id' = [lead_id EXCEPT ![r] = IdStr(nextId)]
        /\ Step(r, "Persisted")
        /\ UNCHANGED <<response, createError>>
     \/ \E e \in StoreErrors :
        /\ createError' = [createError EXCEPT ![r] = e]
        /\ response' = [response EXCEPT ![r] = ErrorResponse(e)]
        /\ Step(r, "Failed")
        /\ UNCHANGED <<store, nextId, created, lead_id>>
  /\ UNCHANGED <<env, payload, lead, email_sent, wa_sent, senderCalls, providerCalls>>

\* email_sent = send_email_via_sendgrid(subject, text)
NotifyEmail(r) ==
  /\ pc[r] = "Persisted"
  /\ \E o \in ProviderOutcomes :
       LET body == text(lead[r], lead_id[r])
           res == send_email_via_sendgrid(env, Subject, body, o)
       IN /\ senderCalls' = [senderCalls EXCEPT ![r] =
                               Append(@, [channel |-> "email", body |-> body])]
          /\ providerCalls' = [providerCalls EXCEPT ![r].email = @ \o res.dispatched]
          /\ IF res.raised
             THEN /\ response' = [response EXCEPT ![r] = ErrorResponse(SenderError)]
                  /\ Step(r, "Failed")
                  /\ UNCHANGED email_sent
             ELSE /\ email_sent' = [email_sent EXCEPT ![r] = res.ret]
                  /\ Step(r, "NotifiedEmail")
                  /\ UNCHANGED response
  /\ UNCHANGED <<env, store, nextId, payload, lead, lead_id, wa_sent, created, createError>>

\* Mutant: the WhatsApp sender is called only when the email went out
\* (wa_sent = email_sent and send_whatsapp_via_twilio(text)).
NotifyMessaging_if_email(r) ==
  /\ pc[r] = "NotifiedEmail"
  /\ \E o \in ProviderOutcomes :
       LET body == text(lead[r], lead_id[r])
           res == send_whatsapp_via_twilio(env, body, o)
       IN IF email_sent[r]
          THEN /\ senderCalls' = [senderCalls EXCEPT ![r] =
                                    Append(@, [channel |-> "whatsapp", body |-> body])]
               /\ providerCalls' = [providerCalls EXCEPT ![r].whatsapp = @ \o res.dispatched]
               /\ wa_sent' = [wa_sent EXCEPT ![r] = res.ret]
          ELSE /\ wa_sent' = [wa_sent EXCEPT ![r] = FALSE]
               /\ UNCHANGED <<senderCalls, providerCalls>>
  /\ Step(r, "NotifiedMessaging")
  /\ UNCHANGED <<env, store, nextId, payload, lead, lead_id, email_sent, response,
                 created, createError>>

\* wa_sent = send_whatsapp_via_twilio(text)
NotifyMessaging(r) ==
  /\ pc[r] = "NotifiedEmail"
  /\ \E o \in ProviderOutcomes :
       LET body == text(lead[r], lead_id[r])
           res == send_whatsapp_via_twilio(env, body, o)
       IN /\ senderCalls' = [senderCalls EXCEPT ![r] =
                               Append(@, [channel |-> "whatsapp", body |-> body])]
          /\ providerCalls' = [providerCalls EXCEPT ![r].whatsapp = @ \o res.dispatched]
          /\ IF res.raised
             THEN /\ response' = [response EXCEPT ![r] = ErrorResponse(SenderError)]
                  /\ Step(r, "Failed")
                  /\ UNCHANGED wa_sent
             ELSE /\ wa_sent' = [wa_sent EXCEPT ![r] = res.ret]
                  /\ Step(r, "NotifiedMessaging")
                  /\ UNCHANGED response
  /\ UNCHANGED <<env, store, nextId, payload, lead, lead_id, email_sent, created, createError>>

\* Mutant: the handler returns right after the email attempt.
Respond_after_email(r) ==
  /\ pc[r] = "NotifiedEmail"
  /\ response' = [response EXCEPT ![r] = SuccessResponse(lead_id[r], email_sent[r], FALSE)]
  /\ Step(r, "Responded")
  /\ UNCHANGED <<env, store, nextId, payload, lead, lead_id, email_sent, wa_sent,
                 created, createError, senderCalls, providerCalls>>

\* return {"ok": True, "id": lead_id, "email_sent": email_sent, "whatsapp_sent": wa_sent}
Respond(r) ==
  /\ pc[r] = "NotifiedMessaging"
  /\ response' = [response EXCEPT ![r] = SuccessResponse(lead_id[r], email_sent[r], wa_sent[r])]
  /\ Step(r, "Responded")
  /\ UNCHANGED <<env, store, nextId, payload, lead, lead_id, email_sent, wa_sent,
                 created, createError, senderCalls, providerCalls>>

Handle(r) ==
  \/ Submit(r)
  \/ ValidateLead(r)
  \/ CreateDocument(r)
  \/ NotifyEmail(r)
  \/ NotifyMessaging(r)
  \/ Respond(r)

InitRequests ==
  /\ store = {}
  /\ nextId = 1
  /\ pc = [r \in Reqs |-> "Idle"]
  /\ payload = [r \in Reqs |-> None]
  /\ lead = [r \in Reqs |-> None]
  /\ lead_id = [r \in Reqs |-> None]
  /\ email_sent = [r \in Reqs |-> FALSE]
  /\ wa_sent = [r \in Reqs |-> FALSE]
  /\ response = [r \in Reqs |-> NoResponse]
  /\ created = [r \in Reqs |-> <<>>]
  /\ createError = [r \in Reqs |-> None]
  /\ trace = [r \in Reqs |-> <<>>]
  /\ senderCalls = [r \in Reqs |-> <<>>]
  /\ providerCalls = [r \in Reqs |-> [email |-> <<>>, whatsapp |-> <<>>]]

\* Interleaved submissions, each channel configured or not.
Init == env \in SmallEnvs /\ InitRequests

Next == \E r \in Reqs : Handle(r)

Spec == Init /\ [][Next]_vars

\* One submission, under every environment.
InitSingle == env \in AllEnvs /\ InitRequests

NextSingle == Handle(1)

SpecSingle == InitSingle /\ [][NextSingle]_vars

\* ------------------------------------------------------- auxiliary notions
SuccessChain ==
  <<"Received", "Validated", "Persisted", "NotifiedEmail", "NotifiedMessaging", "Responded">>

IsPrefix(s, t) == Len(s) <= Len(t) /\ s = SubSeq(t, 1, Len(s))

Visited(r, st) == \E i \in DOMAIN trace[r] : trace[r][i] = st

Finished(r) == pc[r] \in {"Rejected", "Failed", "Responded"}

InFlight(r) == pc[r] \in {"Persisted", "NotifiedEmail", "NotifiedMessaging"}

\* The handler's next statement can run.
CanProceed(r) ==
  \/ pc[r] = "Persisted" /\ ENABLED NotifyEmail(r)
  \/ pc[r] = "NotifiedEmail" /\ ENABLED NotifyMessaging(r)
  \/ pc[r] = "NotifiedMessaging" /\ ENABLED Respond(r)

CallsOn(r, ch) == {i \in DOMAIN senderCalls[r] : senderCalls[r][i].channel = ch}

NoProviderCalls(r) == providerCalls[r].email = <<>> /\ providerCalls[r].whatsapp = <<>>

\* A configuration value that is unset or empty.
Absent(v) == v = None \/ v = <<>>

EmailConfigured == ~Absent(env.SENDGRID_API_KEY)

MessagingConfigured ==
  /\ ~Absent(env.TWILIO_ACCOUNT_SID)
  /\ ~Absent(env.TWILIO_AUTH_TOKEN)
  /\ ~Absent(env.TWILIO_WHATSAPP_FROM)

\* The payload fails structural validation.
Malformed(p) == p.name = None \/ p.phone = None \/ (p.email # None /\ ~IsEmail(p.email))

\* The owner phone the messaging sender resolves.
ResolvedPhone == IF env.OWNER_WHATSAPP_TO = None THEN DefaultOwnerWa ELSE env.OWNER_WHATSAPP_TO

\* How many times the string begins with the transport prefix, back to back.
RECURSIVE LeadingPrefixes(_)
LeadingPrefixes(s) ==
  IF Len(s) >= Len(WaPrefix) /\ SubSeq(s, 1, Len(WaPrefix)) = WaPrefix
  THEN 1 + LeadingPrefixes(SubSeq(s, Len(WaPrefix) + 1, Len(s)))
  ELSE 0

\* ------------------------------------------------------------------ claims

\* C1: once the store's create call succeeded, the request never ends in an error
\* response, whatever the two providers do (unconfigured, accept, raise): it goes on
\* to the end and answers {ok: true, id, email_sent, whatsapp_sent} with the id the
\* store returned.
Thm_C1 ==
  \A r \in Reqs : created[r] # <<>> =>
    /\ pc[r] # "Failed"
    /\ response[r].status \in {0, 200}
    /\ pc[r] = "Responded" <=> response[r].status = 200
    /\ pc[r] = "Responded" =>
         response[r] = [status |-> 200,
                        body |-> [ok |-> TRUE, id |-> created[r][1],
                                  email_sent |-> email_sent[r], whatsapp_sent |-> wa_sent[r]]]
    /\ pc[r] # "Responded" => CanProceed(r)

\* Two successful requests: one whose email provider raised and whose messaging
\* provider accepted, one the other way round.
Witness_C1 ==
  \E r1, r2 \in Reqs :
    /\ pc[r1] = "Responded" /\ pc[r2] = "Responded"
    /\ Len(providerCalls[r1].email) = 1 /\ providerCalls[r1].email[1].result = "raised"
    /\ response[r1].body.email_sent = FALSE /\ response[r1].body.whatsapp_sent = TRUE
    /\ Len(providerCalls[r2].whatsapp) = 1 /\ providerCalls[r2].whatsapp[1].result = "raised"
    /\ response[r2].body.email_sent = TRUE /\ response[r2].body.whatsapp_sent = FALSE

\* C2: a request whose create call failed ends with HTTP 500 whose detail is the
\* failure's description, and neither sender was invoked in it.
Thm_C2 ==
  \A r \in Reqs : createError[r] # None =>
    /\ pc[r] = "Failed"
    /\ response[r] = [status |-> 500, detail |-> createError[r]]
    /\ senderCalls[r] = <<>>
    /\ NoProviderCalls(r)
    /\ created[r] = <<>>

Witness_C2 ==
  \E r1, r2 \in Reqs :
    /\ createError[r1] = <<"timeout">> /\ response[r1].status = 500
    /\ createError[r2] = <<"db", "down">> /\ response[r2].status = 500

\* C3: a payload that fails structural validation (no name, no phone, or an email
\* that is no address) is rejected before any side effect: nothing is persisted for
\* it and no sender is invoked.
Thm_C3 ==
  \A r \in Reqs : (pc[r] # "Idle" /\ Malformed(payload[r])) =>
    /\ pc[r] \in {"Received", "Rejected"}
    /\ pc[r] = "Rejected" <=> response[r] = [status |-> 422]
    /\ pc[r] = "Received" <=> response[r] = NoResponse
    /\ created[r] = <<>>
    /\ \A d \in store : d.doc.name # None /\ d.doc.phone # None
                        /\ (d.doc.email = None \/ IsEmail(d.doc.email))
    /\ senderCalls[r] = <<>>
    /\ NoProviderCalls(r)

Witness_C3 ==
  \E r1, r2 \in Reqs :
    /\ pc[r1] = "Rejected" /\ payload[r1].name = None
    /\ pc[r2] = "Rejected" /\ payload[r2].email = <<"not-an-email">>
    /\ store = {}

\* C4 as stated: every valid lead submitted ends with exactly one record persisted
\* for it and a success response carrying a non-empty id; the returned ids are
\* pairwise distinct and, once every request is answered, the store holds as many
\* records as there were successful responses.
Orig_C4 ==
  /\ \A r \in Reqs : (Finished(r) /\ ~Malformed(payload[r])) =>
       /\ Len(created[r]) = 1
       /\ response[r].status = 200
       /\ response[r].body.id # <<>>
  /\ \A r1, r2 \in Reqs :
       (r1 # r2 /\ response[r1].status = 200 /\ response[r2].status = 200) =>
         response[r1].body.id # response[r2].body.id
  /\ (\A r \in Reqs : Finished(r)) =>
       Cardinality(store) = Cardinality({r \in Reqs : response[r].status = 200})

\* C4, amended: a valid lead whose create call succeeds has exactly one record
\* persisted for it (holding the lead as submitted) and is answered with that
\* record's non-empty id; a valid lead whose create call fails has none and is
\* answered 500. Under every interleaving the returned ids are pairwise distinct,
\* each request stores at most one record, and once every request is answered the
\* number of records equals the number of successful responses.
Thm_C4 ==
  /\ \A r \in Reqs : (Finished(r) /\ ~Malformed(payload[r])) =>
       \/ /\ createError[r] = None
          /\ Len(created[r]) = 1
          /\ response[r].status = 200
          /\ response[r].body.id = created[r][1]
          /\ response[r].body.id # <<>>
          /\ {d \in store : d.id = response[r].body.id}
               = {[id |-> response[r].body.id, doc |-> ParseLead(payload[r])]}
       \/ /\ createError[r] # None
          /\ created[r] = <<>>
          /\ response[r].status = 500
  /\ \A r1, r2 \in Reqs :
       (r1 # r2 /\ response[r1].status = 200 /\ response[r2].status = 200) =>
         response[r1].body.id # response[r2].body.id
  /\ \A r \in Reqs : Len(created[r]) <= 1
  /\ Cardinality(store) = Cardinality({r \in Reqs : created[r] # <<>>})
  /\ (\A r \in Reqs : Finished(r)) =>
       Cardinality(store) = Cardinality({r \in Reqs : response[r].status = 200})

\* Two submissions of identical content, both stored and answered, with different ids.
Witness_C4 ==
  \E r1, r2 \in Reqs :
    /\ r1 # r2
    /\ pc[r1] = "Responded" /\ pc[r2] = "Responded"
    /\ payload[r1] = payload[r2]
    /\ response[r1].body.id # response[r2].body.id
    /\ Cardinality(store) = 2

\* C5: after a successful persistence the email sender and the messaging sender
\* are each invoked exactly once, with the same body, and the messaging sender is
\* invoked whatever the email sender returned.
Thm_C5 ==
  \A r \in Reqs :
    /\ Cardinality(CallsOn(r, "email")) <= 1
    /\ Cardinality(CallsOn(r, "whatsapp")) <= 1
    /\ (created[r] # <<>> /\ pc[r] \in {"NotifiedMessaging", "Responded"}) =>
         /\ Len(senderCalls[r]) = 2
         /\ Cardinality(CallsOn(r, "email")) = 1
         /\ Cardinality(CallsOn(r, "whatsapp")) = 1
         /\ senderCalls[r][1].body = senderCalls[r][2].body
         /\ LET body == senderCalls[r][1].body
            IN SubSeq(body, Len(body) - 2, Len(body)) = <<"Lead ID: ">> \o created[r][1]
    /\ pc[r] = "Persisted" => ENABLED NotifyEmail(r)
    /\ pc[r] = "NotifiedEmail" =>
         /\ Cardinality(CallsOn(r, "email")) = 1
         /\ ENABLED NotifyMessaging(r)

\* The messaging sender was invoked after the email sender returned false in one
\* request and after it returned true in another.
Witness_C5 ==
  \E r1, r2 \in Reqs :
    /\ Visited(r1, "NotifiedMessaging") /\ email_sent[r1] = FALSE
    /\ Cardinality(CallsOn(r1, "whatsapp")) = 1
    /\ Visited(r2, "NotifiedMessaging") /\ email_sent[r2] = TRUE
    /\ Cardinality(CallsOn(r2, "whatsapp")) = 1

\* C6: a channel whose configuration is absent reports false and raises nothing:
\* without SENDGRID_API_KEY the email provider is never called and email_sent is
\* false; without any one of TWILIO_ACCOUNT_SID, TWILIO_AUTH_TOKEN,
\* TWILIO_WHATSAPP_FROM the messaging provider is never called and whatsapp_sent is
\* false; the request still succeeds.
Thm_C6 ==
  \A r \in Reqs :
    /\ ~EmailConfigured =>
         /\ providerCalls[r].email = <<>>
         /\ Visited(r, "NotifiedEmail") => email_sent[r] = FALSE
         /\ response[r].status = 200 => response[r].body.email_sent = FALSE
    /\ ~MessagingConfigured =>
         /\ providerCalls[r].whatsapp = <<>>
         /\ Visited(r, "NotifiedMessaging") => wa_sent[r] = FALSE
         /\ response[r].status = 200 => response[r].body.whatsapp_sent = FALSE
    /\ (~EmailConfigured \/ ~MessagingConfigured) =>
         /\ pc[r] = "Failed" => createError[r] # None
         /\ InFlight(r) => CanProceed(r)
         /\ pc[r] = "Responded" => response[r].status = 200

\* A request answered with both flags false: the email key unset, and of the three
\* messaging values only the from-address unset.
Witness_C6 ==
  \E r \in Reqs :
    /\ pc[r] = "Responded"
    /\ env.SENDGRID_API_KEY = None
    /\ env.TWILIO_ACCOUNT_SID = <<"k">> /\ env.TWILIO_AUTH_TOKEN = <<"k">>
    /\ env.TWILIO_WHATSAPP_FROM = None
    /\ response[r].body.email_sent = FALSE /\ response[r].body.whatsapp_sent = FALSE
    /\ NoProviderCalls(r)

\* C7 as stated: the destination handed to the messaging provider carries the
\* transport prefix exactly once.
Orig_C7 ==
  \A r \in Reqs : \A i \in DOMAIN providerCalls[r].whatsapp :
    LeadingPrefixes(providerCalls[r].whatsapp[i].msg.to) = 1

\* C7, amended: the destination always starts with the prefix; it is the prefix
\* followed by the resolved owner phone when that phone does not start with the
\* prefix (then it carries the prefix exactly once), and the phone as-is when it
\* does, so it carries the prefix as many times as the configured phone does;
\* normalising the destination again changes nothing.
Thm_C7 ==
  \A r \in Reqs : \A i \in DOMAIN providerCalls[r].whatsapp :
    LET dest == providerCalls[r].whatsapp[i].msg.to
        n == LeadingPrefixes(ResolvedPhone)
    IN /\ LeadingPrefixes(dest) >= 1
       /\ n = 0 => (dest = WaPrefix \o ResolvedPhone /\ LeadingPrefixes(dest) = 1)
       /\ n >= 1 => (dest = ResolvedPhone /\ LeadingPrefixes(dest) = n)
       /\ to_whatsapp(dest) = dest

\* A dispatch to an owner phone that already carried the prefix, used as-is.
Witness_C7 ==
  \E r \in Reqs :
    /\ env.OWNER_WHATSAPP_TO = WaPrefix \o <<"+", "1">>
    /\ Len(providerCalls[r].whatsapp) = 1
    /\ providerCalls[r].whatsapp[1].msg.to = WaPrefix \o <<"+", "1">>

\* C8: the response tells whether the lead was saved: a success response goes with
\* exactly one record persisted by the request, an error response (422 or 500)
\* with none, and a request that has persisted its record can only go on to the
\* success response.
Thm_C8 ==
  \A r \in Reqs :
    /\ response[r].status = 200 =>
         /\ Len(created[r]) = 1
         /\ \E d \in store : d.id = created[r][1]
    /\ response[r].status \in {422, 500} => created[r] = <<>>
    /\ created[r] # <<>> =>
         \/ response[r].status = 200
         \/ (response[r].status = 0 /\ InFlight(r) /\ CanProceed(r))
    /\ Finished(r) <=> response[r].status # 0

\* One request answered with success, another with HTTP 500, one record stored.
Witness_C8 ==
  \E r1, r2 \in Reqs :
    /\ response[r1].status = 200 /\ created[r1] # <<>>
    /\ response[r2].status = 500 /\ created[r2] = <<>>
    /\ Cardinality(store) = 1

\* C9: a request moves through Received, Validated, Persisted, NotifiedEmail,
\* NotifiedMessaging, Responded in that order; it leaves that line only by being
\* rejected on validation or aborted on a persistence failure; no sender is invoked
\* before persistence succeeded; the success response is produced only after both
\* notification attempts returned, and every request answered with success has
\* passed through every state.
Thm_C9 ==
  \A r \in Reqs :
    /\ \/ IsPrefix(trace[r], SuccessChain)
       \/ trace[r] = <<"Received", "Rejected">>
       \/ trace[r] = <<"Received", "Validated", "Failed">>
    /\ trace[r] # <<>> => pc[r] = trace[r][Len(trace[r])]
    /\ senderCalls[r] # <<>> => (Visited(r, "Persisted") /\ created[r] # <<>>)
    /\ Visited(r, "NotifiedEmail") <=> CallsOn(r, "email") = {1}
    /\ Visited(r, "NotifiedMessaging") <=> CallsOn(r, "whatsapp") = {2}
    /\ response[r].status = 200 <=> trace[r] = SuccessChain
    /\ response[r].status = 200 => Len(senderCalls[r]) = 2

Witness_C9 ==
  \E r \in Reqs : trace[r] = SuccessChain /\ response[r].status = 200

====
